---------------------------- MODULE Spec2Model ----------------------------
(***************************************************************************)
(* ByteRange::parse of range_header (src/byte_range.rs): an HTTP Range     *)
(* header of the bytes unit is matched against the byte_ranges_specifier   *)
(* grammar and every range-spec is normalised against the size of the      *)
(* selected representation.                                                *)
(*                                                                         *)
(* A header is a sequence of one-character strings.  u64 is modelled with  *)
(* Bits bits; all arithmetic of the normaliser is done modulo 2^Bits and   *)
(* the fact that an operation left 0 .. 2^Bits - 1 is recorded.            *)
(***************************************************************************)
EXTENDS Integers, Sequences, FiniteSets, TLC

\* Width of the modelled u64.
Bits == 4

\* Longest text after the "bytes=" prefix.
MaxBody == 5

Modulus == 2 ^ Bits

U64_MAX == Modulus - 1

\* The characters headers are drawn from: three digits, the hyphen, the comma,
\* the blank and a letter.
Alphabet == {"0", "1", "5", "-", ",", " ", "A"}

BytesPrefix == <<"b", "y", "t", "e", "s", "=">>

Bodies == UNION {[1 .. n -> Alphabet] : n \in 0 .. MaxBody}

\* Headers of another unit, without the "=" or without any prefix.
OtherHeaders ==
    { <<>>,
      <<"f", "o", "o">>,
      <<"b", "y", "t", "e", "s">>,
      <<"0", "-", "1">>,
      <<"i", "t", "e", "m", "s", "=", "0", "-">>,
      <<" ">> \o BytesPrefix \o <<"0", "-">> }

Headers == {BytesPrefix \o b : b \in Bodies} \union OtherHeaders

\* The sizes of the selected representation.
Sizes == {0, 1, 5, U64_MAX}

---------------------------------------------------------------------------
(* The grammar, byte_range.pest.                                           *)

ASCII_DIGIT == {"0", "1", "2", "3", "4", "5", "6", "7", "8", "9"}

blank(c) == c = " "

\* digits := one or more ASCII decimal digits
digits(s) == Len(s) > 0 /\ \A i \in 1 .. Len(s) : s[i] \in ASCII_DIGIT

RECURSIVE skip_blank(_)
skip_blank(s) ==
    IF Len(s) > 0 /\ blank(s[1]) THEN skip_blank(Tail(s)) ELSE s

RECURSIVE drop_trailing_blank(_)
drop_trailing_blank(s) ==
    IF Len(s) > 0 /\ blank(s[Len(s)])
    THEN drop_trailing_blank(SubSeq(s, 1, Len(s) - 1))
    ELSE s

\* The text between two separators without the blanks around it.
strip(s) == drop_trailing_blank(skip_blank(s))

\* Index of the first occurrence of c in s, 0 when there is none.
find(s, c) ==
    IF \E i \in 1 .. Len(s) : s[i] = c
    THEN CHOOSE i \in 1 .. Len(s) : s[i] = c /\ \A j \in 1 .. (i - 1) : s[j] # c
    ELSE 0

Pair(rule, inner) == [rule |-> rule, inner |-> inner]

NoMatch == Pair("none", <<>>)

\* range_spec := from_to_all | from_to | last, on the text t of one list
\* element with the blanks around it removed:
\*   from_to_all := digits ws* "-" ws* digits
\*   from_to     := digits ws* "-"
\*   last        := "-" ws* digits
range_spec(t) ==
    LET dash  == find(t, "-")
        first == strip(SubSeq(t, 1, dash - 1))
        rest  == strip(SubSeq(t, dash + 1, Len(t)))
    IN  IF dash = 0 THEN NoMatch
        ELSE IF digits(first) /\ digits(rest) THEN Pair("from_to_all", <<first, rest>>)
        ELSE IF digits(first) /\ rest = <<>> THEN Pair("from_to", <<first>>)
        ELSE IF first = <<>> /\ digits(rest) THEN Pair("last", <<rest>>)
        ELSE NoMatch

\* spec_list := range_spec (sep range_spec)*, sep a "," with optional blanks
\* around it; an element that is empty or blank is skipped.  The result is the
\* sequence of matched pairs, or <<NoMatch>> when an element matches nothing.
RECURSIVE spec_list(_)
spec_list(s) ==
    LET comma == find(s, ",")
        item  == strip(IF comma = 0 THEN s ELSE SubSeq(s, 1, comma - 1))
        head  == IF item = <<>> THEN <<>> ELSE <<range_spec(item)>>
        tail  == IF comma = 0 THEN <<>> ELSE spec_list(SubSeq(s, comma + 1, Len(s)))
    IN  IF head = <<NoMatch>> \/ tail = <<NoMatch>> THEN <<NoMatch>>
        ELSE head \o tail

\* byte_ranges_specifier := "bytes=" spec_list EOI.  Ok carries the inner pairs
\* of the matched rule, the EOI pair last.
byte_ranges_specifier(h) ==
    IF Len(h) >= Len(BytesPrefix) /\ SubSeq(h, 1, Len(BytesPrefix)) = BytesPrefix
    THEN LET l == spec_list(SubSeq(h, Len(BytesPrefix) + 1, Len(h)))
         IN  IF l = <<NoMatch>> THEN [ok |-> FALSE, inner |-> <<>>]
             ELSE [ok |-> TRUE, inner |-> l \o <<Pair("EOI", <<>>)>>]
    ELSE [ok |-> FALSE, inner |-> <<>>]

---------------------------------------------------------------------------
(* ByteRange::parse, src/byte_range.rs.                                     *)

ByteRange(offset, length) == [offset |-> offset, length |-> length]

Min(a, b) == IF a < b THEN a ELSE b

\* u64 subtraction and addition as the machine computes them, and whether the
\* mathematical result is outside 0 .. U64_MAX (a debug build panics there, a
\* release build goes on with the wrapped value).
wrapping_sub(a, b) == (a - b + Modulus) % Modulus

wrapping_add(a, b) == (a + b) % Modulus

sub_overflows(a, b) == a < b

add_overflows(a, b) == a + b > U64_MAX

digit_value(c) ==
    CASE c = "0" -> 0 [] c = "1" -> 1 [] c = "2" -> 2 [] c = "3" -> 3
      [] c = "4" -> 4 [] c = "5" -> 5 [] c = "6" -> 6 [] c = "7" -> 7
      [] c = "8" -> 8 [] c = "9" -> 9

\* The digits of s folded into acc by a checked multiplication by ten and a
\* checked addition; -1 once the value does not fit u64.
RECURSIVE from_str_radix(_, _)
from_str_radix(s, acc) ==
    IF Len(s) = 0 THEN acc
    ELSE LET v == acc * 10 + digit_value(s[1])
         IN  IF v > U64_MAX THEN -1 ELSE from_str_radix(Tail(s), v)

\* as_str().parse::<u64>(): Ok(value) or Err.
str_parse(s) ==
    LET v == from_str_radix(s, 0)
    IN  IF v < 0 THEN [ok |-> FALSE, value |-> 0] ELSE [ok |-> TRUE, value |-> v]

\* A variant of the guard that lets an empty representation through.
never_empty(size) == size < 0

\* full_size < 1
empty_representation(size) == size < 1

\* A variant of push that inserts at the front of the vector.
push_front(vec, ranges) == ranges \o vec

\* result.push(..) of the ranges one spec yields (none or one).
push(vec, ranges) == vec \o ranges

Nothing == [push |-> <<>>, wraps |-> FALSE]

\* A variant of from_to whose guard is off by one: offset <= full_size.
from_to_inclusive(offset, size) ==
    IF offset <= size
    THEN [push  |-> <<ByteRange(offset, wrapping_sub(size, offset))>>,
          wraps |-> sub_overflows(size, offset)]
    ELSE Nothing

\* A variant of from_to without the guard.
from_to_unguarded(offset, size) ==
    [push  |-> <<ByteRange(offset, wrapping_sub(size, offset))>>,
     wraps |-> sub_overflows(size, offset)]

\* Rule::from_to, eg. '200-'
from_to(offset, size) ==
    IF offset < size
    THEN [push  |-> <<ByteRange(offset, wrapping_sub(size, offset))>>,
          wraps |-> sub_overflows(size, offset)]
    ELSE Nothing

\* A variant of from_to_all that does not clamp end to full_size - 1.
from_to_all_unclamped(begin, end, size) ==
    IF begin >= size \/ begin > end THEN Nothing
    ELSE [push  |-> <<ByteRange(begin, wrapping_add(wrapping_sub(end, begin), 1))>>,
          wraps |-> \/ sub_overflows(end, begin)
                    \/ add_overflows(wrapping_sub(end, begin), 1)]

\* A variant of from_to_all that also drops begin = end.
from_to_all_strict(begin, end, size) ==
    IF begin >= size THEN Nothing
    ELSE LET end1 == IF end >= size THEN wrapping_sub(size, 1) ELSE end
         IN  IF begin >= end1 THEN Nothing
             ELSE [push  |-> <<ByteRange(begin,
                                         wrapping_add(wrapping_sub(end1, begin), 1))>>,
                   wraps |-> FALSE]

\* Rule::from_to_all, eg. '200-300'
from_to_all(begin, end, size) ==
    IF begin >= size THEN Nothing
    ELSE LET clamp == end >= size
             end1  == IF clamp THEN wrapping_sub(size, 1) ELSE end
             w1    == clamp /\ sub_overflows(size, 1)
         IN  IF begin > end1 THEN [push |-> <<>>, wraps |-> w1]
             ELSE [push  |-> <<ByteRange(begin,
                                         wrapping_add(wrapping_sub(end1, begin), 1))>>,
                   wraps |-> \/ w1
                             \/ sub_overflows(end1, begin)
                             \/ add_overflows(wrapping_sub(end1, begin), 1)]

\* A variant of last that does not clamp length to full_size.
last_unclamped(length, size) ==
    [push  |-> <<ByteRange(wrapping_sub(size, length), length)>>,
     wraps |-> sub_overflows(size, length)]

\* Rule::last, eg. '-200'
last(length, size) ==
    LET length1 == Min(length, size)
    IN  [push  |-> <<ByteRange(wrapping_sub(size, length1), length1)>>,
         wraps |-> sub_overflows(size, length1)]

---------------------------------------------------------------------------
\* header, full_size: the arguments of parse.  pc: where the call is ("parse"
\* on entry, "loop" in the for loop, "returned", or "panicked" after an unwrap
\* of Err).  pairs, idx: byte_range_spec_iter, the inner pairs of the matched
\* rule and how many of them the loop has taken.  result: the vector built (the
\* return value once pc = "returned").  wrapped: some u64 operation of the call
\* left 0 .. U64_MAX.
VARIABLES header, full_size, pc, pairs, idx, result, wrapped

vars == <<header, full_size, pc, pairs, idx, result, wrapped>>

Init ==
    /\ header \in Headers
    /\ full_size \in Sizes
    /\ pc = "parse"
    /\ pairs = <<>>
    /\ idx = 0
    /\ result = <<>>
    /\ wrapped = FALSE

\* if full_size < 1 { return vec![]; }
ReturnEmptyRepresentation ==
    /\ pc = "parse"
    /\ empty_representation(full_size)
    /\ pc' = "returned"
    /\ result' = <<>>
    /\ UNCHANGED <<header, full_size, pairs, idx, wrapped>>

\* Err(_) => { return vec![]; }
MatchErr ==
    /\ pc = "parse"
    /\ ~empty_representation(full_size)
    /\ ~byte_ranges_specifier(header).ok
    /\ pc' = "returned"
    /\ result' = <<>>
    /\ UNCHANGED <<header, full_size, pairs, idx, wrapped>>

\* Ok(x) => x.peek().unwrap().into_inner(); let mut result = Vec::new();
MatchOk ==
    /\ pc = "parse"
    /\ ~empty_representation(full_size)
    /\ byte_ranges_specifier(header).ok
    /\ pairs' = byte_ranges_specifier(header).inner
    /\ idx' = 0
    /\ result' = <<>>
    /\ pc' = "loop"
    /\ UNCHANGED <<header, full_size, wrapped>>

\* The pair the for loop takes next.
spec == pairs[idx + 1]

InLoop(rule) ==
    /\ pc = "loop"
    /\ idx < Len(pairs)
    /\ spec.rule = rule

\* unwrap() of an Err: the call unwinds and returns nothing.
Panic ==
    /\ pc' = "panicked"
    /\ UNCHANGED <<header, full_size, pairs, idx, result, wrapped>>

\* One iteration that ended with the ranges and the overflow flag of r.
Iterate(r) ==
    /\ result' = push(result, r.push)
    /\ wrapped' = (wrapped \/ r.wraps)
    /\ idx' = idx + 1
    /\ UNCHANGED <<header, full_size, pairs, pc>>

SpecFromTo ==
    /\ InLoop("from_to")
    /\ LET offset == str_parse(spec.inner[1])
       IN  IF ~offset.ok THEN Panic
           ELSE Iterate(from_to(offset.value, full_size))

SpecFromToAll ==
    /\ InLoop("from_to_all")
    /\ LET begin == str_parse(spec.inner[1])
           end   == str_parse(spec.inner[2])
       IN  IF ~begin.ok \/ ~end.ok THEN Panic
           ELSE Iterate(from_to_all(begin.value, end.value, full_size))

SpecLast ==
    /\ InLoop("last")
    /\ LET length == str_parse(spec.inner[1])
       IN  IF ~length.ok THEN Panic
           ELSE Iterate(last(length.value, full_size))

\* Rule::EOI => {}
SpecEOI ==
    /\ InLoop("EOI")
    /\ Iterate(Nothing)

\* The iterator is exhausted: result is returned.
Return ==
    /\ pc = "loop"
    /\ idx = Len(pairs)
    /\ pc' = "returned"
    /\ UNCHANGED <<header, full_size, pairs, idx, result, wrapped>>

Next ==
    \/ ReturnEmptyRepresentation
    \/ MatchErr
    \/ MatchOk
    \/ SpecFromTo
    \/ SpecFromToAll
    \/ SpecLast
    \/ SpecEOI
    \/ Return

Spec == Init /\ [][Next]_vars
---------------------------------------------------------------------------
(* Properties of parse.                                                    *)

\* The number a digit string denotes.
RECURSIVE numeral(_)
numeral(s) ==
    IF Len(s) = 0 THEN 0
    ELSE 10 * numeral(SubSeq(s, 1, Len(s) - 1)) + digit_value(s[Len(s)])

\* The ranges spec p yields on its own against size.
normalization(p, size) ==
    CASE p.rule = "from_to" -> from_to(str_parse(p.inner[1]).value, size).push
      [] p.rule = "from_to_all" ->
             from_to_all(str_parse(p.inner[1]).value,
                         str_parse(p.inner[2]).value, size).push
      [] p.rule = "last" -> last(str_parse(p.inner[1]).value, size).push
      [] OTHER -> <<>>

\* The normalizations of the first k pairs, in the order of the header.
RECURSIVE concatenation(_)
concatenation(k) ==
    IF k = 0 THEN <<>>
    ELSE concatenation(k - 1) \o normalization(pairs[k], full_size)

\* The for loop has just finished an iteration on a spec of this rule.
Taken(rule) == InLoop(rule) /\ idx' = idx + 1

\* result' is result with exactly one range pushed.
PushedOne == Len(result') = Len(result) + 1 /\ SubSeq(result', 1, Len(result)) = result

\* The call returned the range of a header of exactly one spec, of this rule.
ReturnedSingle(rule) ==
    /\ pc = "returned"
    /\ Len(pairs) = 2
    /\ pairs[1].rule = rule
    /\ Len(result) = 1

\* C1: every range parse returns has length >= 1 and an offset below
\* full_size.
C1_NoEmptyRange ==
    pc = "returned" =>
        \A i \in 1 .. Len(result) :
            result[i].length >= 1 /\ result[i].offset < full_size

\* C2: parse never aborts: whatever the header and full_size, the call never
\* ends in a panic (a numeral that does not fit u64 is a grammar failure and
\* yields the empty vector).
C2_NeverAborts == pc # "panicked"

\* C3: every range parse returns lies inside the representation:
\* offset + length <= full_size.
C3_InsideRepresentation ==
    \A i \in 1 .. Len(result) : result[i].offset + result[i].length <= full_size

\* A returned range ends at the last byte and does not start at the first.
C3_Witness ==
    /\ pc = "returned"
    /\ \E i \in 1 .. Len(result) :
           result[i].offset > 0 /\ result[i].offset + result[i].length = full_size

\* C4: once the header matched the grammar, the vector built is the
\* concatenation, in header order, of the normalizations of the specs taken so
\* far, and parse returns when all specs of the header have been taken: no
\* range is merged, removed or reordered because of a sibling.
C4_Concatenation ==
    /\ pc \in {"loop", "returned"} => result = concatenation(idx)
    /\ pc = "returned" /\ full_size >= 1 /\ byte_ranges_specifier(header).ok =>
           pairs = byte_ranges_specifier(header).inner /\ idx = Len(pairs)

\* Two overlapping ranges are returned, the later one of the resource first.
C4_Witness ==
    /\ pc = "returned"
    /\ Len(result) = 2
    /\ result[1].offset > result[2].offset
    /\ result[2].offset + result[2].length > result[1].offset

\* C5: a spec first-last (b, e) is dropped when b >= full_size or
\* b > min(e, full_size - 1); otherwise exactly one range is pushed, with
\* offset = b and offset + length - 1 = min(e, full_size - 1).
C5_FromToAll ==
    [][Taken("from_to_all") =>
        LET b == numeral(spec.inner[1])
            e == numeral(spec.inner[2])
            m == Min(e, full_size - 1)
        IN  IF b >= full_size \/ b > m THEN result' = result
            ELSE /\ PushedOne
                 /\ result'[Len(result')].offset = b
                 /\ result'[Len(result')].offset + result'[Len(result')].length - 1 = m]_vars

\* A first-last spec whose last position is beyond the representation was
\* clamped and returned.
C5_Witness ==
    /\ ReturnedSingle("from_to_all")
    /\ numeral(pairs[1].inner[2]) >= full_size
    /\ result[1].offset = numeral(pairs[1].inner[1])

\* C6: a suffix spec of n bytes pushes exactly one range, with
\* offset + length = full_size and length = min(n, full_size); a suffix longer
\* than the representation yields the whole of it.
C6_Last ==
    [][Taken("last") =>
        LET n == numeral(spec.inner[1])
            r == result'[Len(result')]
        IN  /\ PushedOne
            /\ r.offset + r.length = full_size
            /\ r.length = Min(n, full_size)
            /\ (n > full_size => r = ByteRange(0, full_size))]_vars

\* A suffix longer than the representation was returned as the whole of it.
C6_Witness ==
    /\ ReturnedSingle("last")
    /\ numeral(pairs[1].inner[1]) > full_size
    /\ result[1] = ByteRange(0, full_size)

\* C7: an open-ended spec from o is dropped when o >= full_size; otherwise
\* exactly one range is pushed, with offset = o and offset + length = full_size.
C7_FromTo ==
    [][Taken("from_to") =>
        LET o == numeral(spec.inner[1])
            r == result'[Len(result')]
        IN  IF o >= full_size THEN result' = result
            ELSE PushedOne /\ r.offset = o /\ r.offset + r.length = full_size]_vars

\* Of two open-ended specs the first was dropped and the second returned.
C7_Witness ==
    /\ pc = "returned"
    /\ Len(pairs) = 3
    /\ pairs[1].rule = "from_to" /\ numeral(pairs[1].inner[1]) >= full_size
    /\ pairs[2].rule = "from_to" /\ numeral(pairs[2].inner[1]) < full_size
    /\ result = <<ByteRange(numeral(pairs[2].inner[1]),
                            full_size - numeral(pairs[2].inner[1]))>>

\* C8: with full_size = 0 parse returns the empty vector whatever the header,
\* and no spec is ever taken (the grammar is not even matched).
C8_EmptyRepresentation ==
    full_size = 0 =>
        /\ pc \in {"parse", "returned"}
        /\ result = <<>>
        /\ idx = 0
        /\ pairs = <<>>

\* parse returned on a header that matches the grammar with a spec in it.
C8_Witness ==
    /\ full_size = 0
    /\ pc = "returned"
    /\ byte_ranges_specifier(header).ok
    /\ Len(byte_ranges_specifier(header).inner) >= 2

\* C9: every returned range {offset, length}, normalized again as the
\* first-last spec offset .. offset + length - 1 against the same full_size,
\* yields exactly that range.
C9_Idempotent ==
    pc = "returned" =>
        \A i \in 1 .. Len(result) :
            from_to_all(result[i].offset,
                        wrapping_sub(wrapping_add(result[i].offset, result[i].length), 1),
                        full_size).push = <<result[i]>>

\* C10: no u64 operation of the normalizer wraps or underflows.
C10_NoWrap == ~wrapped

\* The spec 0-U64_MAX was returned against the maximal full_size.
C10_Witness ==
    /\ ReturnedSingle("from_to_all")
    /\ full_size = U64_MAX
    /\ numeral(pairs[1].inner[1]) = 0
    /\ numeral(pairs[1].inner[2]) = U64_MAX
    /\ result = <<ByteRange(0, U64_MAX)>>
===========================================================================
